---- MODULE Spec2Model ----
(***************************************************************************)
(* A model of the experience-replay subsystem of RLs                       *)
(* (rls/memories/replay_buffer.py): the uniform store ExperienceReplay,    *)
(* the trajectory store EpisodeExperienceReplay, the prioritized store     *)
(* PrioritizedExperienceReplay over its sum tree, and NStepWrapper.        *)
(*                                                                         *)
(* Every buffer object is one record variable; `mode` says which object a  *)
(* behaviour is about, so that each specification explores one class.      *)
(***************************************************************************)
EXTENDS Integers, Sequences, FiniteSets, TLC

\* ------------------------------------------------------------------ bounds
MaxIns == 6        \* insertions _store_op performs in one behaviour
MaxAdd == 2        \* transitions in one add(*args) call
MaxEpSteps == 4    \* transitions fed to EpisodeExperienceReplay.add
MaxLen == 4        \* longest stored trajectory a window is cut from
MaxNsSteps == 5    \* transitions fed to NStepWrapper.add
MaxAgSteps == 3    \* add calls on a store of two agents

\* ------------------------------------------- the configurations constructed
Capacities == {1, 2, 3}       \* capacity of ExperienceReplay
BatchSizes == {0, 1, 2}       \* batch_size
EpCapacities == {1, 2}        \* capacity of EpisodeExperienceReplay, in trajectories
BurnIns == {0, 1}             \* burn_in_time_step
Trains == {1, 2}              \* train_time_step
PerCapacities == {2, 3}       \* capacity of PrioritizedExperienceReplay
PerBatchSizes == {2}          \* its batch_size
Alphas == {0, 1}              \* alpha
TrainSteps == {2}             \* max_train_step
TdErrors == {0, 1}            \* |td-error|, in units of epsilon
CtorInts == {-1, 0, 1, 2}     \* batch_size, capacity and epsilon given to a constructor
CtorAlphas == {-1, 0, 1, 2}   \* alpha given to a constructor
NSteps == {2, 3}              \* n of NStepWrapper
Gamma == <<9, 10>>            \* gamma = 9/10
\* <<reward, done>> of a step of the environment: a terminal step pays 1
Outcomes == {<<1, FALSE>>, <<2, FALSE>>, <<1, TRUE>>}

VARIABLES
    mode,       \* which class the behaviour exercises
    er,         \* ExperienceReplay: buffer, data_pointer, size, capacity, batch_size
    erIns,      \* number of _store_op calls since construction (names the items)
    erSince,    \* number of _store_op calls since construction or the last reset
    erOut,      \* the last call on er and what it returned
    ep,         \* EpisodeExperienceReplay: the fields of the object
    epSince,    \* number of trajectories stored since construction or the last reset
    epSteps,    \* number of transitions fed to add
    epOut,      \* the last call on ep and what it returned
    per,        \* PrioritizedExperienceReplay: the fields of the object
    perOut,     \* the last call on per and how it ended
    perHist,    \* history of per: what was inserted, updated and sampled so far
    ctor,       \* the last constructor call: its arguments and whether it succeeded
    ns,         \* NStepWrapper: n, the agents' queues and the wrapped buffer
    nsHist,     \* history: the transitions fed to agent 1, in order
    nsOut,      \* the last call on ns: the transition fed and the entries committed
    feed        \* history: the arguments of every add call on a store of two agents

erVars == <<er, erIns, erSince, erOut>>
epVars == <<ep, epSince, epSteps, epOut>>
perVars == <<per, perOut, perHist>>
nsVars == <<ns, nsHist, nsOut>>
vars == <<mode, erVars, epVars, perVars, ctor, nsVars, feed>>

\* ----------------------------------------------------------------- helpers
Min(a, b) == IF a <= b THEN a ELSE b
Max(a, b) == IF a >= b THEN a ELSE b

\* The sequences over S of length n whose elements are pairwise distinct.
InjSeqs(S, n) == {q \in [1..n -> S] : \A i, j \in 1..n : i # j => q[i] # q[j]}

\* The items a sequence holds.
Range(q) == {q[i] : i \in 1..Len(q)}

\* python's q[a:b] on a 0-indexed list, for 0 <= a.
Slice(q, a, b) == SubSeq(q, a + 1, Min(b, Len(q)))

\* ======================================================== ExperienceReplay
\* np.empty(capacity, dtype=object): every slot holds None.
None == 0

ER_init(batch_size, capacity) ==
    [batch_size |-> batch_size, capacity |-> capacity, size |-> 0,
     data_pointer |-> 0, buffer |-> [i \in 0..(capacity - 1) |-> None]]

\* A slip: the cursor stops advancing once the store is full.
ER_update_rb_after_add_stuck(b) ==
    IF b.size < b.capacity
    THEN [b EXCEPT !.data_pointer = IF @ + 1 >= b.capacity THEN 0 ELSE @ + 1,
                   !.size = @ + 1]
    ELSE b

ER_update_rb_after_add(b) ==
    LET p1 == b.data_pointer + 1
        p2 == IF p1 >= b.capacity THEN 0 ELSE p1
        s2 == IF b.size < b.capacity THEN b.size + 1 ELSE b.size
    IN  [b EXCEPT !.data_pointer = p2, !.size = s2]

ER_store_op(b, data) ==
    ER_update_rb_after_add([b EXCEPT !.buffer[b.data_pointer] = data])

\* add(*args): _store_op on every item of zip(*args), in order.
RECURSIVE ER_add(_, _)
ER_add(b, items) ==
    IF items = <<>> THEN b
    ELSE ER_add(ER_store_op(b, Head(items)), Tail(items))

ER_is_lg_batch_size(b) == b.size > b.batch_size

ER_n_sample(b) == IF ER_is_lg_batch_size(b) THEN b.batch_size ELSE b.size

\* A slip: the draw is taken from the whole array instead of its live prefix.
ER_choice_whole(b, n) == InjSeqs(0..(b.capacity - 1), n)

\* The slots np.random.choice(self._buffer[:self._size], size, replace=False)
\* may draw, in the order drawn.
ER_choice(b, n) == InjSeqs(0..(b.size - 1), n)

\* ReplayBuffer.reset, which ExperienceReplay inherits unchanged.
ER_reset(b) == [b EXCEPT !.size = 0]

ErIdle == [op |-> "none", idx |-> <<>>, data |-> <<>>, err |-> FALSE, size |-> 0]

InitER ==
    /\ mode = "er"
    /\ \E c \in Capacities, bs \in BatchSizes : er = ER_init(bs, c)
    /\ erIns = 0
    /\ erSince = 0
    /\ erOut = ErIdle

ERAdd ==
    /\ mode = "er"
    /\ \E k \in 1..MaxAdd :
         /\ erIns + k <= MaxIns
         /\ er' = ER_add(er, [i \in 1..k |-> erIns + i])
         /\ erIns' = erIns + k
         /\ erSince' = erSince + k
         /\ erOut' = [ErIdle EXCEPT !.op = "add", !.size = er.size]
    /\ UNCHANGED <<mode, feed, epVars, perVars, ctor, nsVars>>

\* sample(): np.random.choice accepts an empty population when no sample is
\* taken, and zip(*t) of nothing is an empty list: no error is raised.
ERSample ==
    /\ mode = "er"
    /\ \E t \in ER_choice(er, ER_n_sample(er)) :
         erOut' = [op |-> "sample", idx |-> t,
                   data |-> [i \in 1..Len(t) |-> er.buffer[t[i]]],
                   err |-> FALSE, size |-> er.size]
    /\ UNCHANGED <<mode, feed, er, erIns, erSince, epVars, perVars, ctor, nsVars>>

\* get_all(): zip(*self._buffer[:self._size]), the slots 0 .. size-1 in slot
\* order; of nothing an empty list.
ER_get_all(b) == [i \in 1..b.size |-> b.buffer[i - 1]]

ERGetAll ==
    /\ mode = "er"
    /\ erOut' = [op |-> "get_all", idx |-> [i \in 1..er.size |-> i - 1],
                 data |-> ER_get_all(er), err |-> FALSE, size |-> er.size]
    /\ UNCHANGED <<mode, feed, er, erIns, erSince, epVars, perVars, ctor, nsVars>>

ERReset ==
    /\ mode = "er"
    /\ er' = ER_reset(er)
    /\ erSince' = 0
    /\ erOut' = [ErIdle EXCEPT !.op = "reset", !.size = er.size]
    /\ UNCHANGED <<mode, feed, erIns, epVars, perVars, ctor, nsVars>>

NextER == ERAdd \/ ERSample \/ ERGetAll \/ ERReset

\* ================================================= EpisodeExperienceReplay
\* The environment that feeds the stores: the observations <<s, visual_s>> a
\* transition may start from; a step toggles the vector observation and keeps
\* the visual one.
Observations == {<<0, 0>>, <<1, 0>>, <<0, 1>>}
EnvNext(s) == 1 - s

\* One agent's transition [s, visual_s, a, r, s_, visual_s_, done]; the action
\* field carries the number of the step, which tells transitions apart.
Transition(s, vs, a, r, s2, vs2, done) ==
    [s |-> s, vs |-> vs, a |-> a, r |-> r, s_ |-> s2, vs_ |-> vs2, done |-> done]

\* np.empty(capacity, dtype=object): a slot never written holds no trajectory.
NoTraj == <<>>

Ep_init(batch_size, capacity, agents_num, burn_in_time_step, train_time_step) ==
    [batch_size |-> batch_size, capacity |-> capacity, size |-> 0,
     agents_num |-> agents_num,
     burn_in_time_step |-> burn_in_time_step,
     train_time_step |-> train_time_step,
     timestep |-> burn_in_time_step + train_time_step,
     queue |-> [i \in 1..agents_num |-> <<>>],
     data_pointer |-> 0,
     buffer |-> [i \in 0..(capacity - 1) |-> NoTraj],
     burn_in_states |-> <<>>,
     log |-> <<>>]    \* history: every trajectory _store_op was given, in order

Ep_update_rb_after_add(e) ==
    LET p1 == e.data_pointer + 1
        p2 == IF p1 >= e.capacity THEN 0 ELSE p1
        s2 == IF e.size < e.capacity THEN e.size + 1 ELSE e.size
    IN  [e EXCEPT !.data_pointer = p2, !.size = s2]

Ep_store_op(e, data) ==
    Ep_update_rb_after_add([e EXCEPT !.buffer[e.data_pointer] = data,
                                     !.log = Append(@, data)])

\* (q[-1][4] != data[0]).any() or (q[-1][5] != data[1]).any()
Ep_discontinuous(q, data) ==
    \/ q[Len(q)].s_ # data.s
    \/ q[Len(q)].vs_ # data.vs

\* A _per_store that, like the n-step wrapper, drops the open trajectory on a
\* discontinuity.
Ep_per_store_drop(e, i, data) ==
    LET q == e.queue[i] IN
    IF Len(q) = 0 THEN [e EXCEPT !.queue[i] = <<data>>]
    ELSE IF Ep_discontinuous(q, data) THEN [e EXCEPT !.queue[i] = <<data>>]
    ELSE IF data.done
         THEN [Ep_store_op(e, Append(q, data)) EXCEPT !.queue[i] = <<>>]
    ELSE [e EXCEPT !.queue[i] = Append(q, data)]

Ep_per_store(e, i, data) ==
    LET q == e.queue[i] IN
    IF Len(q) = 0 THEN [e EXCEPT !.queue[i] = <<data>>]
    ELSE IF Ep_discontinuous(q, data)
         THEN [Ep_store_op(e, q) EXCEPT !.queue[i] = <<data>>]
    ELSE IF data.done
         THEN [Ep_store_op(e, Append(q, data)) EXCEPT !.queue[i] = <<>>]
    ELSE [e EXCEPT !.queue[i] = Append(q, data)]

\* add(*args): _per_store(i, data) for every agent i, in order.
RECURSIVE Ep_add(_, _, _)
Ep_add(e, i, datas) ==
    IF i > Len(datas) THEN e
    ELSE Ep_add(Ep_per_store(e, i, datas[i]), i + 1, datas)

Ep_is_lg_batch_size(e) == e.size > e.batch_size

Ep_n_sample(e) == IF Ep_is_lg_batch_size(e) THEN e.batch_size ELSE e.size

\* The slots np.random.choice(self._buffer[:self._size], size, replace=False)
\* may draw, in the order drawn.
Ep_choice(e, n) == InjSeqs(0..(e.size - 1), n)

\* A slip: the start is drawn over the whole trajectory.
Ep_truncate_idx_any(e, traj) == 0..(Len(traj) - 1)

\* The values np.random.randint(max(1, len(traj) - self.timestep + 1)) may return.
Ep_truncate_idx(e, traj) == 0..(Max(1, Len(traj) - e.timestep + 1) - 1)

Ep_truncate(e, traj, idx) == Slice(traj, idx, idx + e.timestep)

\* keras pad_sequences(padding='pre', truncating='pre', value=v, maxlen=l) on
\* one sequence: keep its last l items and fill up with v in front.
pad_sequences(x, v, l) ==
    LET t == IF Len(x) > l THEN SubSeq(x, Len(x) - l + 1, Len(x)) ELSE x
        n == l - Len(t)
    IN  [k \in 1..l |-> IF k <= n THEN v ELSE t[k - n]]

\* dtype='float32' on the done flags.
AsFloat(d) == IF d THEN 1 ELSE 0

Column(traj, f) == [k \in 1..Len(traj) |-> traj[k][f]]

\* The padded window of one truncated trajectory, one row per time step:
\* fields 0..5 padded with 0., done padded with 1.
Ep_window(e, traj) ==
    LET num(f) == pad_sequences(Column(traj, f), 0, e.timestep)
        dn == pad_sequences([k \in 1..Len(traj) |-> AsFloat(traj[k].done)],
                            1, e.timestep)
    IN  [k \in 1..e.timestep |->
            [s |-> num("s")[k], vs |-> num("vs")[k], a |-> num("a")[k],
             r |-> num("r")[k], s_ |-> num("s_")[k], vs_ |-> num("vs_")[k],
             done |-> dn[k]]]

\* x[:, :burn_in_time_step] of s and visual_s.
Ep_burn_in(e, w) ==
    [k \in 1..Min(e.burn_in_time_step, Len(w)) |-> <<w[k].s, w[k].vs>>]

\* x[:, burn_in_time_step:]
Ep_train(e, w) == Slice(w, e.burn_in_time_step, Len(w))

\* No transition: what epOut.data holds unless the last call was add.
NoTransition == Transition(0, 0, 0, 0, 0, 0, FALSE)

EpIdle ==
    [op |-> "none", idx |-> <<>>, trajs |-> <<>>, starts |-> <<>>,
     windows |-> <<>>, train |-> <<>>, err |-> FALSE, data |-> NoTransition]

InitEp ==
    /\ mode = "ep"
    /\ \E c \in EpCapacities, bs \in BatchSizes : ep = Ep_init(bs, c, 1, 1, 1)
    /\ epSince = 0
    /\ epSteps = 0
    /\ epOut = EpIdle

EpAdd ==
    /\ mode = "ep"
    /\ epSteps < MaxEpSteps
    /\ \E o \in Observations, done \in BOOLEAN :
         LET data == Transition(o[1], o[2], epSteps + 1, 1, EnvNext(o[1]), o[2], done) IN
             /\ ep' = Ep_add(ep, 1, <<data>>)
             /\ epSince' = epSince + (Len(ep'.log) - Len(ep.log))
             /\ epOut' = [EpIdle EXCEPT !.op = "add", !.data = data]
    /\ epSteps' = epSteps + 1
    /\ UNCHANGED <<mode, feed, erVars, perVars, ctor, nsVars>>

\* sample(): with no trajectory stored, trajs[0][0] raises IndexError before
\* anything is assigned.
EpSampleEmpty ==
    /\ mode = "ep"
    /\ Ep_n_sample(ep) = 0
    /\ epOut' = [EpIdle EXCEPT !.op = "sample", !.err = TRUE]
    /\ UNCHANGED <<mode, feed, ep, epSince, epSteps, erVars, perVars, ctor, nsVars>>

EpSample ==
    /\ mode = "ep"
    /\ Ep_n_sample(ep) > 0
    /\ \E t \in Ep_choice(ep, Ep_n_sample(ep)) :
         LET trajs == [k \in 1..Len(t) |-> ep.buffer[t[k]]] IN
         \E starts \in [1..Len(t) -> 0..MaxEpSteps] :
             /\ \A k \in 1..Len(t) : starts[k] \in Ep_truncate_idx(ep, trajs[k])
             /\ LET w == [k \in 1..Len(t) |->
                            Ep_window(ep, Ep_truncate(ep, trajs[k], starts[k]))]
                IN  /\ ep' = [ep EXCEPT !.burn_in_states =
                                  [k \in 1..Len(t) |-> Ep_burn_in(ep, w[k])]]
                    /\ epOut' = [EpIdle EXCEPT !.op = "sample", !.idx = t,
                                   !.trajs = trajs, !.starts = starts,
                                   !.windows = w,
                                   !.train = [k \in 1..Len(t) |-> Ep_train(ep, w[k])],
                                   !.size = ep.size]
    /\ UNCHANGED <<mode, feed, epSince, epSteps, erVars, perVars, ctor, nsVars>>

\* ReplayBuffer.reset, which EpisodeExperienceReplay inherits unchanged.
Ep_reset(e) == [e EXCEPT !.size = 0]

EpReset ==
    /\ mode = "ep"
    /\ ep' = Ep_reset(ep)
    /\ epSince' = 0
    /\ epOut' = [EpIdle EXCEPT !.op = "reset"]
    /\ UNCHANGED <<mode, feed, epSteps, erVars, perVars, ctor, nsVars>>

NextEp == EpAdd \/ EpSampleEmpty \/ EpSample \/ EpReset

\* ================================== Sum_Tree (rls/memories/sum_tree.py)
\* The priority index: an array-backed complete binary tree of 2C-1 nodes;
\* node i has the children 2i+1 and 2i+2 and the parent (i-1) \div 2; the
\* leaves are the nodes C-1 .. 2C-2, leaf C-1+k for slot k, written in the
\* order of the store's cursor.
Tree_init(capacity) ==
    [capacity |-> capacity, now |-> 0,
     tree |-> [i \in 0..(2 * capacity - 2) |-> 0]]

Tree_leaf(t, slot) == t.capacity - 1 + slot

Tree_is_leaf(t, node) == 2 * node + 1 > 2 * t.capacity - 2

\* Add delta to every ancestor of node, up to the root.
RECURSIVE Tree_propagate(_, _, _)
Tree_propagate(tr, node, delta) ==
    IF node = 0 THEN tr
    ELSE LET parent == (node - 1) \div 2
         IN  Tree_propagate([tr EXCEPT ![parent] = @ + delta], parent, delta)

\* update(slot, priority): overwrite the leaf, then propagate the signed delta.
Tree_update(t, slot, p) ==
    LET leaf == Tree_leaf(t, slot)
        delta == p - t.tree[leaf]
    IN  [t EXCEPT !.tree = Tree_propagate([t.tree EXCEPT ![leaf] = p], leaf, delta)]

\* add(priority, data): update the leaf under the cursor and advance it.
Tree_add(t, p) ==
    [Tree_update(t, t.now, p) EXCEPT
        !.now = IF t.now + 1 >= t.capacity THEN 0 ELSE t.now + 1]

\* add_batch: the tree is as after the single adds, in order.
RECURSIVE Tree_add_batch(_, _)
Tree_add_batch(t, ps) ==
    IF ps = <<>> THEN t ELSE Tree_add_batch(Tree_add(t, Head(ps)), Tail(ps))

\* _updatetree_batch: the tree is as after the single updates, in order.
RECURSIVE Tree_updatetree_batch(_, _, _)
Tree_updatetree_batch(t, idxs, ps) ==
    IF idxs = <<>> \/ ps = <<>> THEN t
    ELSE Tree_updatetree_batch(Tree_update(t, Head(idxs), Head(ps)),
                               Tail(idxs), Tail(ps))

Tree_total(t) == t.tree[0]

Tree_priority(t, slot) == t.tree[Tree_leaf(t, slot)]

\* sample(value): descend from the root, left if value <= left subtree sum,
\* else subtract it and go right.  value and the sums are in units of 1/unit.
RECURSIVE Tree_retrieve(_, _, _, _)
Tree_retrieve(t, node, value, unit) ==
    IF Tree_is_leaf(t, node) THEN node - (t.capacity - 1)
    ELSE LET left == 2 * node + 1
             lsum == t.tree[left] * unit
         IN  IF value <= lsum THEN Tree_retrieve(t, left, value, unit)
             ELSE Tree_retrieve(t, left + 1, value - lsum, unit)

\* reset: every node 0, the cursor at the first slot.
Tree_reset(t) == Tree_init(t.capacity)

\* ============================================= PrioritizedExperienceReplay
\* Priorities are counted in units of epsilon ** alpha and td-errors in units
\* of epsilon, with alpha 0 or 1: np.power(x, alpha) is 1 or x.
Power(x, alpha) == IF alpha = 0 THEN 1 ELSE x

\* sys.maxsize, the value min_p holds until the first update.
sys_maxsize == 2147483647

\* beta is counted in units of 1 / (2 * max_train_step), so that the three
\* initial values 0, 1/2 and 1 and the interval are whole numbers.
BetaOne(max_train_step) == 2 * max_train_step

PER_init_check(batch_size, capacity, epsilon) ==
    /\ epsilon > 0
    /\ batch_size >= 0
    /\ capacity >= 0

PER_reset(b) ==
    [b EXCEPT !.tree = Tree_reset(b.tree), !.size = 0, !.beta = b.init_beta,
              !.min_p = sys_maxsize, !.max_p = Power(b.epsilon, b.alpha)]

NoIndexs == <<-1>>    \* the attribute last_indexs is not set yet

PER_init(batch_size, capacity, max_train_step, alpha, beta, epsilon, global_v) ==
    PER_reset(
        [batch_size |-> batch_size, capacity |-> capacity, size |-> 0,
         tree |-> Tree_init(capacity), alpha |-> alpha,
         beta |-> beta, init_beta |-> beta,
         beta_interval |-> (BetaOne(max_train_step) - beta) \div max_train_step,
         one |-> BetaOne(max_train_step),
         epsilon |-> epsilon, global_v |-> global_v,
         min_p |-> sys_maxsize, max_p |-> 0, last_indexs |-> NoIndexs])

\* An add_batch that gives new leaves the priority floor epsilon ** alpha.
PER_add_batch_floor(b, num) ==
    [b EXCEPT !.tree = Tree_add_batch(b.tree,
                          [i \in 1..num |-> Power(b.epsilon, b.alpha)]),
              !.size = Min(b.size + num, b.capacity)]

\* add(*args) -> add_batch(list(zip(*args))): num leaves of priority max_p.
PER_add_batch(b, num) ==
    [b EXCEPT !.tree = Tree_add_batch(b.tree, [i \in 1..num |-> b.max_p]),
              !.size = Min(b.size + num, b.capacity)]

\* An apex_add_batch whose size is not capped at capacity.
PER_apex_add_batch_grow(b, td_error) ==
    [b EXCEPT !.tree = Tree_add_batch(b.tree,
                          [i \in 1..Len(td_error) |->
                              Power(td_error[i] + b.epsilon, b.alpha)]),
              !.size = b.size + Len(td_error)]

PER_apex_add_batch(b, td_error) ==
    LET prios == [i \in 1..Len(td_error) |->
                     Power(td_error[i] + b.epsilon, b.alpha)]
    IN  [b EXCEPT !.tree = Tree_add_batch(b.tree, prios),
                  !.size = Min(b.size + Len(td_error), b.capacity)]

PER_is_lg_batch_size(b) == b.size > b.batch_size

PER_n_sample(b) == IF PER_is_lg_batch_size(b) THEN b.batch_size ELSE b.size

\* The slots a draw inside the i-th of n equal strata of [0, total) resolves
\* to: np.linspace(0, total, n + 1), np.random.uniform(low, high) and
\* get_batch_parallel.  In units of 1/(2n) the stratum is
\* (2 * total * (i-1), 2 * total * i); the points strictly inside are taken.
PER_stratum(b, n, i) ==
    LET total == Tree_total(b.tree)
    IN  {Tree_retrieve(b.tree, 0, v, 2 * n) :
            v \in (2 * total * (i - 1) + 1)..(2 * total * i - 1)}

PER_min_ref(b, p) ==
    IF b.global_v /\ b.min_p < sys_maxsize THEN b.min_p
    ELSE CHOOSE m \in Range(p) : \A x \in Range(p) : m <= x

\* np.power(_min_p / p, self.beta), kept as the fraction and the exponent.
PER_IS_w(b, p) ==
    [i \in 1..Len(p) |-> [num |-> PER_min_ref(b, p), den |-> p[i], beta |-> b.beta]]

\* A sample that advances beta as an update does.
PER_sample_anneal(b, idxs) ==
    [b EXCEPT !.last_indexs = idxs, !.beta = Min(b.beta + b.beta_interval, b.one)]

\* sample() once the tree has resolved the draws to idxs; IS_w, which is read
\* through get_IS_w() after the call, is kept with the call's result.
PER_sample(b, idxs) == [b EXCEPT !.last_indexs = idxs]

PER_sample_IS_w(b, idxs) ==
    PER_IS_w(b, [i \in 1..Len(idxs) |-> Tree_priority(b.tree, idxs[i])])

\* priority = np.power(np.abs(priority) + self.epsilon, self.alpha)
PER_priority(b, priority) ==
    [i \in 1..Len(priority) |-> Power(priority[i] + b.epsilon, b.alpha)]

\* priority.max()
PER_priority_max(b, priority) ==
    LET prio == PER_priority(b, priority)
    IN  CHOOSE m \in Range(prio) : \A x \in Range(prio) : m >= x

\* A beta that advances one step for every priority of the batch.
PER_next_beta_per_item(b, priority) ==
    Min(b.beta + Len(priority) * b.beta_interval, b.one)

\* self.beta = min(self.beta + self.beta_interval, 1.)
PER_next_beta(b, priority) == Min(b.beta + b.beta_interval, b.one)

\* A check that lets fewer priorities than indices through.
PER_update_check_lax(priority, idxs) == Len(priority) <= Len(idxs)

\* assert len(priority) == len(idxs)
PER_update_check(priority, idxs) == Len(priority) = Len(idxs)

\* An update that overwrites the leaves and leaves their ancestors alone.
RECURSIVE Tree_write_leaves(_, _, _)
Tree_write_leaves(t, idxs, ps) ==
    IF idxs = <<>> \/ ps = <<>> THEN t
    ELSE Tree_write_leaves([t EXCEPT !.tree[Tree_leaf(t, Head(idxs))] = Head(ps)],
                           Tail(idxs), Tail(ps))

PER_update_raw(b, priority, idxs) ==
    [b EXCEPT !.beta = PER_next_beta(b, priority),
              !.tree = Tree_write_leaves(b.tree, idxs,
                          [i \in 1..Len(priority) |->
                              Power(priority[i] + b.epsilon, b.alpha)])]

PER_update(b, priority, idxs) ==
    LET prio == PER_priority(b, priority)
        lo == CHOOSE m \in Range(prio) : \A x \in Range(prio) : m <= x
    IN  [b EXCEPT !.beta = PER_next_beta(b, priority),
                  !.min_p = Min(b.min_p, lo),
                  !.max_p = Max(b.max_p, PER_priority_max(b, priority)),
                  !.tree = Tree_updatetree_batch(b.tree, idxs, prio)]

\* num: how many transitions an add or apex_add was given; idxs: the indices
\* a successful update wrote.
PerIdle == [op |-> "none", err |-> FALSE, mismatch |-> FALSE, IS_w |-> <<>>,
            num |-> 0, idxs |-> {}]

\* History: ins, the transitions inserted since construction or the last
\* reset, counted up to capacity; hi, the largest priority update computed
\* since then (0: none); updates, the successful update calls since then,
\* counted up to max_train_step.
PerHistInit == [ins |-> 0, hi |-> 0, updates |-> 0]

PER_max_train_step(b) == b.one \div 2

\* The sequences over S of length 1..n.
SeqsUpTo(S, n) == UNION {[1..k -> S] : k \in 1..n}

InitPER ==
    /\ mode = "per"
    /\ \E c \in PerCapacities, bs \in PerBatchSizes, a \in Alphas,
          m \in TrainSteps, b0 \in {0, 1}, g \in BOOLEAN :
         per = PER_init(bs, c, m, a, b0 * m, 1, g)
    /\ perOut = PerIdle
    /\ perHist = PerHistInit

PERAdd ==
    /\ mode = "per"
    /\ \E num \in 1..MaxAdd :
         /\ per' = PER_add_batch(per, num)
         /\ perOut' = [PerIdle EXCEPT !.op = "add", !.num = num]
         /\ perHist' = [perHist EXCEPT !.ins = Min(@ + num, per.capacity)]
    /\ UNCHANGED <<mode, feed, erVars, epVars, ctor, nsVars>>

PERApexAdd ==
    /\ mode = "per"
    /\ \E td_error \in SeqsUpTo(TdErrors, MaxAdd) :
         /\ per' = PER_apex_add_batch(per, td_error)
         /\ perHist' = [perHist EXCEPT
                           !.ins = Min(@ + Len(td_error), per.capacity)]
         /\ perOut' = [PerIdle EXCEPT !.op = "apex_add", !.num = Len(td_error)]
    /\ UNCHANGED <<mode, feed, erVars, epVars, ctor, nsVars>>

\* sample() on an empty buffer: the tree returns empty arrays, which become
\* last_indexs, and p.min() of an empty array raises ValueError (min_p is
\* sys.maxsize whenever the buffer is empty).
PERSampleEmpty ==
    /\ mode = "per"
    /\ PER_n_sample(per) = 0
    /\ per' = [per EXCEPT !.last_indexs = <<>>]
    /\ perOut' = [PerIdle EXCEPT !.op = "sample", !.err = TRUE]
    /\ UNCHANGED perHist
    /\ UNCHANGED <<mode, feed, erVars, epVars, ctor, nsVars>>

PERSample ==
    /\ mode = "per"
    /\ PER_n_sample(per) > 0
    /\ LET n == PER_n_sample(per) IN
       \E idxs \in [1..n -> 0..(per.capacity - 1)] :
           /\ \A i \in 1..n : idxs[i] \in PER_stratum(per, n, i)
           /\ per' = PER_sample(per, idxs)
           /\ perOut' = [PerIdle EXCEPT !.op = "sample",
                                         !.IS_w = PER_sample_IS_w(per, idxs)]
    /\ UNCHANGED perHist
    /\ UNCHANGED <<mode, feed, erVars, epVars, ctor, nsVars>>

\* get_all(): the tree returns every live leaf; as sample from there on.
PERGetAll ==
    /\ mode = "per"
    /\ per.size > 0
    /\ LET idxs == [i \in 1..per.size |-> i - 1] IN
           /\ per' = PER_sample(per, idxs)
           /\ perOut' = [PerIdle EXCEPT !.op = "get_all",
                                         !.IS_w = PER_sample_IS_w(per, idxs)]
    /\ UNCHANGED perHist
    /\ UNCHANGED <<mode, feed, erVars, epVars, ctor, nsVars>>

\* update(priority, index): index is None (last_indexs is used; AttributeError
\* when no sample has set it) or one index an earlier sample returned.
PERUpdate ==
    /\ mode = "per"
    /\ \E priority \in SeqsUpTo(TdErrors, MaxAdd),
          index \in {NoIndexs} \cup SeqsUpTo(0..(per.size - 1), 1) :
         LET idxs == IF index # NoIndexs THEN index ELSE per.last_indexs
             ok == idxs # NoIndexs /\ PER_update_check(priority, idxs)
         IN  /\ per' = IF ok THEN PER_update(per, priority, idxs) ELSE per
             /\ perOut' = [PerIdle EXCEPT !.op = "update", !.err = ~ok,
                              !.mismatch = (idxs # NoIndexs
                                            /\ Len(priority) # Len(idxs)),
                              !.idxs = IF ok THEN Range(idxs) ELSE {}]
             /\ perHist' = IF ~ok THEN perHist ELSE
                    [perHist EXCEPT
                        !.hi = Max(@, PER_priority_max(per, priority)),
                        !.updates = Min(@ + 1, PER_max_train_step(per))]
    /\ UNCHANGED <<mode, feed, erVars, epVars, ctor, nsVars>>

PERReset ==
    /\ mode = "per"
    /\ per' = PER_reset(per)
    /\ perOut' = [PerIdle EXCEPT !.op = "reset"]
    /\ perHist' = PerHistInit
    /\ UNCHANGED <<mode, feed, erVars, epVars, ctor, nsVars>>

NextPER ==
    \/ PERAdd \/ PERApexAdd \/ PERSampleEmpty \/ PERSample \/ PERGetAll
    \/ PERUpdate \/ PERReset

\* ------------------------------------------------------------ construction
\* PrioritizedExperienceReplay(batch_size, capacity, max_train_step, alpha,
\* beta, epsilon, global_v): the assertions of both __init__ methods decide
\* whether an object is made; Sum_Tree(0) may or may not raise.
CtorIdle ==
    [called |-> FALSE, ok |-> FALSE, batch_size |-> 0, capacity |-> 0,
     alpha |-> 0, epsilon |-> 0]

InitCtor ==
    /\ mode = "ctor"
    /\ ctor = CtorIdle

Construct ==
    /\ mode = "ctor"
    /\ \E bs \in CtorInts, c \in CtorInts, eps \in CtorInts, a \in CtorAlphas,
          treeOk \in BOOLEAN :
         /\ treeOk \/ c = 0
         /\ ctor' = [called |-> TRUE,
                     ok |-> PER_init_check(bs, c, eps) /\ treeOk,
                     batch_size |-> bs, capacity |-> c, alpha |-> a,
                     epsilon |-> eps]
    /\ UNCHANGED <<mode, feed, erVars, epVars, perVars, nsVars>>

\* ============================================================ NStepWrapper
\* Rewards are counted in units of 1 / Gamma[2] ** (n - 1), so that a reward
\* times gamma ** k, k < n, is a whole number.
RECURSIVE Pow(_, _)
Pow(x, k) == IF k = 0 THEN 1 ELSE x * Pow(x, k - 1)

RewardUnit(n) == Pow(Gamma[2], n - 1)

\* data[3] * (self.gamma ** k)
Discounted(r, k) == (r * Pow(Gamma[1], k)) \div Pow(Gamma[2], k)

NoEntry == Transition(0, 0, 0, 0, 0, 0, FALSE)

\* NStepExperienceReplay(batch_size, capacity, gamma, n, agents_num)
NStep_init(batch_size, capacity, n, agents_num) ==
    [buffer |-> [ER_init(batch_size, capacity) EXCEPT
                    !.buffer = [i \in 0..(capacity - 1) |-> NoEntry]],
     n |-> n, agents_num |-> agents_num,
     queue |-> [i \in 1..agents_num |-> <<>>],
     log |-> <<>>]    \* history: every entry _store_op was given, in order

\* self._store_op resolves, through __getattr__, to the wrapped buffer's.
NStep_store_op(w, data) ==
    [w EXCEPT !.buffer = ER_store_op(w.buffer, data), !.log = Append(@, data)]

\* (q[-1][4] != data[0]).any() or (q[-1][5] != data[1]).any()
NStep_discontinuous(q, data) ==
    \/ q[Len(q)].s_ # data.s
    \/ q[Len(q)].vs_ # data.vs

\* A truncated case that stores whatever is queued before starting over.
NStep_truncated_flush(w, i, data) ==
    [w EXCEPT !.buffer = ER_add(w.buffer, w.queue[i]),
              !.log = @ \o w.queue[i],
              !.queue[i] = <<data>>]

\* A truncated case that keeps everything queued and queues data behind it.
NStep_truncated_keep(w, i, data) ==
    [w EXCEPT !.queue[i] = Append(@, data)]

\* The truncated case: with n entries queued the oldest is stored and the rest
\* stays queued; with fewer the queue is cleared; then data is appended.
NStep_truncated(w, i, data) ==
    LET q == w.queue[i] IN
    IF Len(q) = w.n
    THEN [NStep_store_op(w, Head(q)) EXCEPT !.queue[i] = Append(Tail(q), data)]
    ELSE [w EXCEPT !.queue[i] = <<data>>]

\* A roll that discounts one power of gamma too little.
NStep_roll_late(q, data) ==
    [j \in 1..Len(q) |->
        [q[j] EXCEPT !.r = @ + Discounted(data.r, Len(q) - j),
                     !.s_ = data.s_, !.vs_ = data.vs_, !.done = data.done]]

\* for j in range(_len): q[j][3] += data[3] * gamma ** (_len - j); q[j][4:] = data[4:]
NStep_roll(q, data) ==
    [j \in 1..Len(q) |->
        [q[j] EXCEPT !.r = @ + Discounted(data.r, Len(q) - (j - 1)),
                     !.s_ = data.s_, !.vs_ = data.vs_, !.done = data.done]]

\* A flush that stores the newest entry and drops the others.
NStep_flush_newest(w, q) ==
    IF q = <<>> THEN w ELSE NStep_store_op(w, q[Len(q)])

\* while q: self._store_op(q.pop())
RECURSIVE NStep_flush(_, _)
NStep_flush(w, q) ==
    IF q = <<>> THEN w
    ELSE NStep_flush(NStep_store_op(w, q[Len(q)]), SubSeq(q, 1, Len(q) - 1))

NStep_per_store(w, i, data) ==
    LET q == w.queue[i] IN
    IF Len(q) = 0 THEN [w EXCEPT !.queue[i] = <<data>>]
    ELSE IF NStep_discontinuous(q, data) THEN NStep_truncated(w, i, data)
    ELSE LET w1 == IF Len(q) = w.n THEN NStep_store_op(w, Head(q)) ELSE w
             q1 == IF Len(q) = w.n THEN Tail(q) ELSE q
             q2 == Append(NStep_roll(q1, data), data)
         IN  IF data.done
             THEN [NStep_flush(w1, q2) EXCEPT !.queue[i] = <<>>]
             ELSE [w1 EXCEPT !.queue[i] = q2]

\* An add that puts every agent's transition into the queue of the first agent.
NStep_add_one_queue(w, i, datas) ==
    LET w1 == NStep_per_store(w, 1, datas[1])
    IN  IF Len(datas) >= 2 THEN NStep_per_store(w1, 1, datas[2]) ELSE w1

\* add(*args): _per_store(i, data) for every agent i, in order.
RECURSIVE NStep_add(_, _, _)
NStep_add(w, i, datas) ==
    IF i > Len(datas) THEN w
    ELSE NStep_add(NStep_per_store(w, i, datas[i]), i + 1, datas)

NsIdle == [op |-> "none", data |-> NoEntry, commits |-> <<>>, qlen |-> 0,
           discont |-> FALSE]

InitNStep ==
    /\ mode = "nstep"
    /\ \E n \in NSteps : ns = NStep_init(1, 2, n, 1)
    /\ nsHist = <<>>
    /\ nsOut = NsIdle

NStepAdd ==
    /\ mode = "nstep"
    /\ Len(nsHist) < MaxNsSteps
    /\ \E o \in Observations, rd \in Outcomes :
         LET data == Transition(o[1], o[2], Len(nsHist) + 1,
                                rd[1] * RewardUnit(ns.n), EnvNext(o[1]), o[2],
                                rd[2])
             q == ns.queue[1]
         IN  /\ ns' = NStep_add(ns, 1, <<data>>)
             /\ nsHist' = Append(nsHist, data)
             /\ nsOut' = [op |-> "add", data |-> data,
                          commits |-> SubSeq(ns'.log, Len(ns.log) + 1, Len(ns'.log)),
                          qlen |-> Len(q),
                          discont |-> Len(q) > 0 /\ NStep_discontinuous(q, data)]
    /\ UNCHANGED <<mode, feed, erVars, epVars, perVars, ctor>>

\* ---------------------------------------------------------------- two agents
\* agents_num = 2: every add call brings one transition for each agent.  Agent
\* i is in an environment of its own, gets the reward i, and its transition
\* of the k-th call carries <<i, k>> as the action.
AgentsNum == 2

AgentObservations == {<<0, 0>>, <<1, 0>>}

AgentData(i, k, unit) ==
    {Transition(o[1], o[2], <<i, k>>, i * unit, EnvNext(o[1]), o[2], done) :
        o \in AgentObservations, done \in BOOLEAN}

InitNStepAgents ==
    /\ mode = "nstep2"
    /\ ns = NStep_init(1, 2, 2, AgentsNum)
    /\ nsHist = <<>>
    /\ nsOut = NsIdle
    /\ feed = <<>>

NStepAgentsAdd ==
    /\ mode = "nstep2"
    /\ Len(feed) < MaxAgSteps
    /\ \E d1 \in AgentData(1, Len(feed) + 1, RewardUnit(ns.n)),
          d2 \in AgentData(2, Len(feed) + 1, RewardUnit(ns.n)) :
         /\ ns' = NStep_add(ns, 1, <<d1, d2>>)
         /\ feed' = Append(feed, <<d1, d2>>)
    /\ UNCHANGED <<mode, nsHist, nsOut, erVars, epVars, perVars, ctor>>

InitEpAgents ==
    /\ mode = "ep2"
    /\ ep = Ep_init(1, 2, AgentsNum, 1, 1)
    /\ epSince = 0
    /\ epSteps = 0
    /\ epOut = EpIdle
    /\ feed = <<>>

EpAgentsAdd ==
    /\ mode = "ep2"
    /\ Len(feed) < MaxAgSteps
    /\ \E d1 \in AgentData(1, Len(feed) + 1, 1),
          d2 \in AgentData(2, Len(feed) + 1, 1) :
         /\ ep' = Ep_add(ep, 1, <<d1, d2>>)
         /\ feed' = Append(feed, <<d1, d2>>)
    /\ UNCHANGED <<mode, epSince, epSteps, epOut, erVars, perVars, ctor, nsVars>>

\* =========================================================== specifications
IdleER ==
    /\ er = ER_init(0, 0)
    /\ erIns = 0
    /\ erSince = 0
    /\ erOut = ErIdle

IdlePER ==
    /\ per = PER_init(0, 1, 1, 0, 0, 1, FALSE)
    /\ perOut = PerIdle
    /\ perHist = PerHistInit

IdleCtor == ctor = CtorIdle

IdleNStep ==
    /\ ns = NStep_init(0, 0, 1, 0)
    /\ nsHist = <<>>
    /\ nsOut = NsIdle

IdleAgents == feed = <<>>

IdleEp ==
    /\ ep = Ep_init(0, 0, 0, 0, 0)
    /\ epSince = 0
    /\ epSteps = 0
    /\ epOut = EpIdle

\* The uniform store alone.
OnlyER == InitER /\ IdleEp /\ IdlePER /\ IdleCtor /\ IdleNStep /\ IdleAgents

SpecER == OnlyER /\ [][NextER]_vars

\* The trajectory store alone.
OnlyEp == InitEp /\ IdleER /\ IdlePER /\ IdleCtor /\ IdleNStep /\ IdleAgents

SpecEp == OnlyEp /\ [][NextEp]_vars

\* Either fixed-capacity store.
InitStores == OnlyER \/ OnlyEp

NextStores == NextER \/ NextEp

SpecStores == InitStores /\ [][NextStores]_vars

\* The three stores, each in one configuration per capacity: what a store
\* holds and where its cursor is does not depend on how it is sampled.
InitSizes ==
    \/ OnlyER
    \/ /\ mode = "ep"
       /\ \E c \in EpCapacities : ep = Ep_init(1, c, 1, 1, 1)
       /\ epSince = 0 /\ epSteps = 0 /\ epOut = EpIdle
       /\ IdleER /\ IdlePER /\ IdleCtor /\ IdleNStep /\ IdleAgents
    \/ /\ mode = "per"
       /\ \E c \in PerCapacities, bs \in PerBatchSizes, m \in TrainSteps :
             per = PER_init(bs, c, m, 1, 0, 1, FALSE)
       /\ perOut = PerIdle /\ perHist = PerHistInit
       /\ IdleER /\ IdleEp /\ IdleCtor /\ IdleNStep /\ IdleAgents

NextSizes == NextER \/ NextEp \/ NextPER

SpecSizes == InitSizes /\ [][NextSizes]_vars

\* Constructor calls.
OnlyCtor == InitCtor /\ IdleER /\ IdleEp /\ IdlePER /\ IdleNStep /\ IdleAgents

SpecCtor == OnlyCtor /\ [][Construct]_vars

\* NStepWrapper over an ExperienceReplay, one agent.
OnlyNStep == InitNStep /\ IdleER /\ IdleEp /\ IdlePER /\ IdleCtor /\ IdleAgents

SpecNStep == OnlyNStep /\ [][NStepAdd]_vars

\* The prioritized store alone.
OnlyPER == InitPER /\ IdleER /\ IdleEp /\ IdleCtor /\ IdleNStep /\ IdleAgents

SpecPER == OnlyPER /\ [][NextPER]_vars

\* NStepWrapper and EpisodeExperienceReplay, each with two agents.
OnlyNStepAgents == InitNStepAgents /\ IdleER /\ IdleEp /\ IdlePER /\ IdleCtor

OnlyEpAgents == InitEpAgents /\ IdleER /\ IdlePER /\ IdleCtor /\ IdleNStep

InitAgents == OnlyNStepAgents \/ OnlyEpAgents

NextAgents == NStepAgentsAdd \/ EpAgentsAdd

SpecAgents == InitAgents /\ [][NextAgents]_vars

\* A window is cut from one stored trajectory: the store holds one trajectory
\* the environment produced, of any length up to MaxLen, closed by a terminal
\* transition or by a discontinuity.
EnvTrajectory(o, len, lastDone) ==
    [k \in 1..len |->
        LET s == IF k % 2 = 1 THEN o[1] ELSE EnvNext(o[1])
        IN  Transition(s, o[2], k, 1, EnvNext(s), o[2], lastDone /\ k = len)]

InitWindow ==
    /\ mode = "ep"
    /\ \E o \in Observations, len \in 1..MaxLen, lastDone \in BOOLEAN,
          b \in BurnIns, t \in Trains :
         ep = Ep_store_op(Ep_init(1, 1, 1, b, t), EnvTrajectory(o, len, lastDone))
    /\ epSince = 1
    /\ epSteps = 0
    /\ epOut = EpIdle

OnlyWindow == InitWindow /\ IdleER /\ IdlePER /\ IdleCtor /\ IdleNStep /\ IdleAgents

SpecWindow == OnlyWindow /\ [][EpSample]_vars

\* ==================================================================== claims
Live(b) == {b.buffer[i] : i \in 0..(b.size - 1)}

\* C1: FIFO eviction.  Once capacity or more items were inserted (since
\* construction or the last reset), the store is full and holds exactly the
\* last `capacity` inserted items, and the cursor is on the oldest of them, so
\* that the next insertion removes exactly the oldest item still stored; for
\* ExperienceReplay (items) and EpisodeExperienceReplay (closed trajectories),
\* with sample calls interleaved at will.
C1_FIFO ==
    /\ (mode = "er" /\ erSince >= er.capacity) =>
          /\ er.size = er.capacity
          /\ Live(er) = (erIns - er.capacity + 1)..erIns
          /\ er.buffer[er.data_pointer] = erIns - er.capacity + 1
    /\ (mode = "ep" /\ epSince >= ep.capacity) =>
          LET n == Len(ep.log) IN
          /\ ep.size = ep.capacity
          /\ Live(ep) = {ep.log[i] : i \in (n - ep.capacity + 1)..n}
          /\ ep.buffer[ep.data_pointer] = ep.log[n - ep.capacity + 1]

C1_Witness ==
    /\ mode = "ep"
    /\ ep.capacity = 2
    /\ epSince = 3
    /\ epOut.op = "sample"

\* C2: importance weight bound.  Every weight (min_ref / p_i) ** beta of a batch
\* returned by sample or get_all is in (0, 1]: min_ref and p_i are positive and,
\* unless beta = 0, min_ref <= p_i.
C2_WeightBound ==
    (mode = "per" /\ perOut.op \in {"sample", "get_all"} /\ ~perOut.err) =>
        \A i \in 1..Len(perOut.IS_w) :
            LET w == perOut.IS_w[i] IN
            /\ w.num > 0
            /\ w.den > 0
            /\ w.beta = 0 \/ w.num <= w.den

\* C3: n-step return.  When the last n + 1 transitions fed to the agent are
\* continuous and none of the first n of them is done, the call that fed the
\* last one commits first the oldest of them, t, with reward
\* sum over k < n of gamma ** k * r(t+k) and with next state and done of t+n-1.
Continuous(h, a, b) ==
    \A k \in a..(b - 1) : h[k].s_ = h[k + 1].s /\ h[k].vs_ = h[k + 1].vs

RECURSIVE NStepReturn(_, _, _)
NStepReturn(h, t, n) ==
    IF n = 0 THEN 0
    ELSE NStepReturn(h, t, n - 1) + Discounted(h[t + n - 1].r, n - 1)

C3_NStepReturn ==
    LET n == ns.n
        t == Len(nsHist) - n
    IN  (/\ mode = "nstep"
         /\ t >= 1
         /\ Continuous(nsHist, t, t + n)
         /\ \A k \in t..(t + n - 1) : ~nsHist[k].done) =>
            /\ Len(nsOut.commits) >= 1
            /\ nsOut.commits[1] =
                   [nsHist[t] EXCEPT !.r = NStepReturn(nsHist, t, n),
                                     !.s_ = nsHist[t + n - 1].s_,
                                     !.vs_ = nsHist[t + n - 1].vs_,
                                     !.done = nsHist[t + n - 1].done]

C3_Witness ==
    /\ mode = "nstep"
    /\ ns.n = 3
    /\ Len(nsHist) = 4
    /\ Continuous(nsHist, 1, 4)
    /\ \A k \in 1..3 : ~nsHist[k].done /\ nsHist[k].r = RewardUnit(3)
    /\ Len(nsOut.commits) >= 1
    /\ nsOut.commits[1].a = 1
    /\ nsOut.commits[1].r = 271

PadRow == [s |-> 0, vs |-> 0, a |-> 0, r |-> 0, s_ |-> 0, vs_ |-> 0, done |-> 1]

RowOf(tr) == [tr EXCEPT !.done = IF tr.done THEN 1 ELSE 0]

C5_Window ==
    (mode = "ep" /\ epOut.op = "sample" /\ ~epOut.err) =>
        \A k \in 1..Len(epOut.trajs) :
            LET traj == epOut.trajs[k]
                w == epOut.windows[k]
                L == Len(traj)
                W == ep.burn_in_time_step + ep.train_time_step
            IN  /\ Len(w) = W
                /\ L >= W => \E i \in 0..(L - W) :
                                \A j \in 1..W : w[j] = RowOf(traj[i + j])
                /\ L < W => /\ \A j \in 1..(W - L) : w[j] = PadRow
                            /\ \A j \in 1..L : w[W - L + j] = RowOf(traj[j])

C5_Witness ==
    /\ mode = "ep"
    /\ epOut.op = "sample"
    /\ Len(epOut.trajs) = 1
    /\ Len(epOut.trajs[1]) = 4
    /\ ep.timestep = 3
    /\ epOut.starts[1] = 1

\* C6: sum invariant.  Every internal node of the sum tree is the sum of its
\* two children and the root is the sum of all leaves, never-written ones
\* counting 0, after any sequence of add, apex_add_batch, update and reset.
RECURSIVE SumLeaves(_, _)
SumLeaves(t, n) ==
    IF n = 0 THEN 0 ELSE SumLeaves(t, n - 1) + Tree_priority(t, n - 1)

C6_SumInvariant ==
    mode = "per" =>
        /\ \A i \in 0..(per.tree.capacity - 2) :
               per.tree.tree[i] = per.tree.tree[2 * i + 1] + per.tree.tree[2 * i + 2]
        /\ Tree_total(per.tree) = SumLeaves(per.tree, per.tree.capacity)

C6_Witness ==
    /\ mode = "per"
    /\ per.capacity = 3
    /\ per.size = 3
    /\ perOut.op = "update"
    /\ ~perOut.err
    /\ Tree_priority(per.tree, 0) # Tree_priority(per.tree, 2)
    /\ Tree_total(per.tree) = SumLeaves(per.tree, 3)
    /\ Tree_total(per.tree) >= 5

\* C7: an update whose number of priorities differs from the number of
\* indices it would write to fails and leaves beta, min_p, max_p and every
\* leaf priority (the whole buffer) as they were.
C7_UpdateMismatchFails ==
    [][(mode = "per" /\ perOut'.op = "update" /\ perOut'.mismatch) =>
           (perOut'.err /\ per' = per)]_vars

C7_Witness ==
    /\ mode = "per"
    /\ perOut.op = "update"
    /\ perOut.mismatch
    /\ perOut.err
    /\ per.size = 2
    /\ Len(per.last_indexs) = 2

\* C8: sampling a buffer with zero live entries (freshly constructed, or after
\* reset) fails with an error instead of returning a batch.
C8_EmptySampleFails ==
    /\ (mode = "er" /\ erOut.op = "sample" /\ er.size = 0) => erOut.err
    /\ (mode = "ep" /\ epOut.op = "sample" /\ ep.size = 0) => epOut.err
    /\ (mode = "per" /\ perOut.op = "sample" /\ per.size = 0) => perOut.err

\* C9: constructing a prioritized buffer fails whenever epsilon <= 0, or
\* capacity <= 0, or batch_size <= 0, or alpha is outside [0, 1], and succeeds
\* only when all four are valid.
C9_CtorValidation ==
    (mode = "ctor" /\ ctor.called) =>
        (ctor.ok <=> (/\ ctor.epsilon > 0
                      /\ ctor.capacity > 0
                      /\ ctor.batch_size > 0
                      /\ ctor.alpha \in 0..1))

\* C10: with size >= 1 the uniform draw of sample returns exactly
\* min(batch_size, size) items from pairwise distinct slots, each a live slot
\* (below size) holding an item that was inserted and not overwritten since;
\* for EpisodeExperienceReplay this is the trajectory draw of its sample.
Distinct(q) == \A i, j \in 1..Len(q) : i # j => q[i] # q[j]

C10_UniformDraw ==
    /\ (mode = "er" /\ erOut.op = "sample" /\ er.size >= 1) =>
          /\ Len(erOut.idx) = Min(er.batch_size, er.size)
          /\ Len(erOut.data) = Len(erOut.idx)
          /\ Distinct(erOut.idx)
          /\ \A i \in 1..Len(erOut.idx) :
                /\ erOut.idx[i] \in 0..(er.size - 1)
                /\ erOut.data[i] = er.buffer[erOut.idx[i]]
                /\ erOut.data[i] \in 1..erIns
    /\ (mode = "ep" /\ epOut.op = "sample" /\ ep.size >= 1) =>
          /\ Len(epOut.idx) = Min(ep.batch_size, ep.size)
          /\ Distinct(epOut.idx)
          /\ \A i \in 1..Len(epOut.idx) :
                /\ epOut.idx[i] \in 0..(ep.size - 1)
                /\ epOut.trajs[i] = ep.buffer[epOut.idx[i]]
                /\ epOut.trajs[i] \in Range(ep.log)

C10_Witness ==
    /\ mode = "er"
    /\ erOut.op = "sample"
    /\ er.capacity = 3
    /\ er.size = 2
    /\ er.batch_size = 2
    /\ erSince = 2
    /\ erIns = 4
    /\ Len(erOut.idx) = 2

\* C11: get_all of ExperienceReplay returns all live items in insertion
\* order, oldest first and newest last, also after the cursor has wrapped.
\* (Items are numbered in insertion order.)
C11_GetAllInsertionOrder ==
    (mode = "er" /\ erOut.op = "get_all") =>
        /\ Range(erOut.data) = Live(er)
        /\ Len(erOut.data) = er.size
        /\ \A i \in 1..(Len(erOut.data) - 1) : erOut.data[i] < erOut.data[i + 1]

\* C12: every transition inserted through add or add_batch gets as leaf
\* priority the max_p of the time of the call, and that max_p is the largest
\* of epsilon ** alpha and every priority update computed since the last
\* reset; so it is not below any priority update wrote since then.
PER_written(b, num) == {(b.tree.now + j) % b.capacity : j \in 0..(num - 1)}

C12_InsertAtMaxP ==
    [][(mode = "per" /\ perOut'.op = "add") =>
          /\ \A slot \in PER_written(per, perOut'.num) :
                 Tree_priority(per'.tree, slot) = per.max_p
          /\ per.max_p = Max(Power(per.epsilon, per.alpha), perHist.hi)
          /\ per.max_p >= perHist.hi]_vars

C12_Witness ==
    /\ mode = "per"
    /\ perOut.op = "add"
    /\ perOut.num = 2
    /\ perHist.hi = 2
    /\ per.max_p = 2
    /\ per.capacity = 3
    /\ \E slot \in 0..2 : Tree_priority(per.tree, slot) = 1
    /\ \E slot \in 0..2 : Tree_priority(per.tree, slot) = 2

\* C13: beta annealing.  Between two resets beta is in [beta_init, 1] and is
\* beta_init plus one step (1 - beta_init) / max_train_step for every
\* successful update call so far, capped at 1, whatever the lengths of the
\* priority batches and whatever other calls were made; so it never
\* decreases, only update changes it, and after max_train_step updates it is 1.
C13_BetaAnnealing ==
    mode = "per" =>
        LET m == PER_max_train_step(per)
            step == (per.one - per.init_beta) \div m
        IN  /\ per.init_beta <= per.beta /\ per.beta <= per.one
            /\ step * m = per.one - per.init_beta
            /\ per.beta = Min(per.init_beta + perHist.updates * step, per.one)
            /\ perHist.updates = m => per.beta = per.one

C13_Witness ==
    /\ mode = "per"
    /\ per.init_beta > 0
    /\ perHist.updates = PER_max_train_step(per)
    /\ per.beta = per.one
    /\ perOut.op = "update"
    /\ ~perOut.err

\* C14: an update given no explicit indices writes to last_indexs, and these
\* are the indices the most recent sample call resolved whatever was executed
\* since: no call other than sample changes last_indexs.
C14_LastSampleIndices ==
    [][(mode = "per" /\ perOut'.op # "sample") =>
           per'.last_indexs = per.last_indexs]_vars

\* C19: size and cursor.  As long as there was no reset, size is the number of
\* insertions capped at capacity and the write cursor of the two array-backed
\* stores is the number of insertions modulo capacity; size is in [0, C] and
\* the cursor in [0, C).  (For the prioritized store, whose reset restores
\* the state after construction, insertions are counted since the last reset.)
C19_SizeAndCursor ==
    /\ (mode = "er" /\ erSince = erIns) =>
          /\ er.size = Min(erIns, er.capacity)
          /\ er.data_pointer = erIns % er.capacity
    /\ mode = "er" => /\ er.size \in 0..er.capacity
                      /\ er.data_pointer \in 0..(er.capacity - 1)
    /\ (mode = "ep" /\ epSince = Len(ep.log)) =>
          /\ ep.size = Min(Len(ep.log), ep.capacity)
          /\ ep.data_pointer = Len(ep.log) % ep.capacity
    /\ mode = "ep" => /\ ep.size \in 0..ep.capacity
                      /\ ep.data_pointer \in 0..(ep.capacity - 1)
    /\ mode = "per" => /\ per.size = perHist.ins
                       /\ per.size \in 0..per.capacity

C19_Witness ==
    /\ mode = "er"
    /\ er.capacity = 3
    /\ erIns = 5
    /\ erSince = 5
    /\ er.size = 3
    /\ er.data_pointer = 2
    /\ erOut.op = "add"

\* C16: no straddling.  Every entry committed to the wrapped buffer is some
\* transition t of the agent with reward, next state and done built from a
\* run t .. u of consecutive transitions in which each state (and visual
\* state) is the previous one's next state.
BuiltFromRun(e, h) ==
    \E u \in e.a..Len(h) :
        /\ Continuous(h, e.a, u)
        /\ e = [h[e.a] EXCEPT !.r = NStepReturn(h, e.a, u - e.a + 1),
                              !.s_ = h[u].s_, !.vs_ = h[u].vs_,
                              !.done = h[u].done]

C16_NoStraddling ==
    mode = "nstep" =>
        \A i \in 1..Len(ns.log) : BuiltFromRun(ns.log[i], nsHist)

\* C17: a discontinuous transition arriving at a queue of exactly n entries
\* commits exactly the oldest entry and leaves the queue holding exactly the
\* new transition.
C17_FullQueueDiscontinuity ==
    (mode = "nstep" /\ nsOut.op = "add" /\ nsOut.discont
        /\ nsOut.qlen = ns.n) =>
        /\ Len(nsOut.commits) = 1
        /\ nsOut.commits[1].a = nsOut.data.a - ns.n
        /\ ns.queue[1] = <<nsOut.data>>

\* C18: a continuous transition with done set commits every queued entry and
\* itself in oldest-to-newest order, the terminal transition last.
C18_TerminalFlushOrder ==
    (mode = "nstep" /\ nsOut.op = "add" /\ ~nsOut.discont
        /\ nsOut.qlen >= 1 /\ nsOut.data.done) =>
        /\ Len(nsOut.commits) = nsOut.qlen + 1
        /\ \A k \in 1..(Len(nsOut.commits) - 1) :
               nsOut.commits[k].a < nsOut.commits[k + 1].a
        /\ nsOut.commits[Len(nsOut.commits)].a = nsOut.data.a
        /\ ns.queue[1] = <<>>

\* C20: queue bound.  After every add the agent's queue holds at most n
\* transitions, in arrival order, oldest first.
C20_QueueBound ==
    mode = "nstep" =>
        LET q == ns.queue[1] IN
        /\ Len(q) <= ns.n
        /\ \A k \in 1..(Len(q) - 1) : q[k].a < q[k + 1].a
        /\ \A k \in 1..Len(q) : q[k].a \in 1..Len(nsHist)

C20_Witness ==
    /\ mode = "nstep"
    /\ ns.n = 3
    /\ Len(ns.queue[1]) = 3
    /\ nsOut.op = "add"
    /\ nsOut.discont
    /\ nsOut.qlen = 3
    /\ ns.queue[1][3] = nsOut.data

\* The transitions fed to agent i so far, in order.
Own(i) == [k \in 1..Len(feed) |-> feed[k][i]]

\* A wrapper of one agent after it has been fed stream.
RECURSIVE NStep_alone(_, _)
NStep_alone(w, stream) ==
    IF stream = <<>> THEN w
    ELSE NStep_alone(NStep_add(w, 1, <<Head(stream)>>), Tail(stream))

\* A trajectory store of one agent after it has been fed stream.
RECURSIVE Ep_alone(_, _)
Ep_alone(e, stream) ==
    IF stream = <<>> THEN e
    ELSE Ep_alone(Ep_add(e, 1, <<Head(stream)>>), Tail(stream))

\* C21: with two agents, after any add calls the queue of agent i and the
\* entries committed for agent i, in order, are those of a store of one agent
\* that was fed agent i's transitions alone, for NStepWrapper and for
\* EpisodeExperienceReplay; and _per_store for agent i leaves the queue of the
\* other agent as it was, be it called first or after the other agent's.
C21_AgentIndependence ==
    /\ mode = "nstep2" =>
          \A i \in 1..AgentsNum :
              LET ref == NStep_alone(NStep_init(1, 2, ns.n, 1), Own(i))
                  j == 3 - i
              IN  /\ ns.queue[i] = ref.queue[1]
                  /\ SelectSeq(ns.log, LAMBDA t : t.a[1] = i) = ref.log
                  /\ \A d \in AgentData(i, Len(feed) + 1, RewardUnit(ns.n)),
                        c \in AgentData(j, Len(feed) + 1, RewardUnit(ns.n)) :
                         LET w1 == NStep_per_store(ns, j, c)
                         IN  /\ NStep_per_store(ns, i, d).queue[j] = ns.queue[j]
                             /\ NStep_per_store(w1, i, d).queue[j] = w1.queue[j]
    /\ mode = "ep2" =>
          \A i \in 1..AgentsNum :
              LET ref == Ep_alone(Ep_init(1, 2, 1, 1, 1), Own(i))
                  j == 3 - i
              IN  /\ ep.queue[i] = ref.queue[1]
                  /\ SelectSeq(ep.log, LAMBDA traj : traj[1].a[1] = i) = ref.log
                  /\ \A d \in AgentData(i, Len(feed) + 1, 1),
                        c \in AgentData(j, Len(feed) + 1, 1) :
                         LET e1 == Ep_per_store(ep, j, c)
                         IN  /\ Ep_per_store(ep, i, d).queue[j] = ep.queue[j]
                             /\ Ep_per_store(e1, i, d).queue[j] = e1.queue[j]

\* After three add calls both agents have had entries committed and their
\* queues differ: agent 1 has one entry pending, agent 2 has two.
C21_Witness ==
    /\ mode = "nstep2"
    /\ Len(feed) = 3
    /\ \E k \in 1..Len(ns.log) : ns.log[k].a[1] = 1
    /\ \E k \in 1..Len(ns.log) : ns.log[k].a[1] = 2
    /\ Len(ns.queue[1]) = 1
    /\ Len(ns.queue[2]) = 2

\* C22: an add to EpisodeExperienceReplay whose transition meets an open
\* trajectory q: continuous (its s and visual_s equal the last queued s_ and
\* visual_s_) with done set, q and the transition are stored as one unit and
\* the queue is left empty; discontinuous, q alone is stored as one unit and
\* the queue holds only the new transition; continuous without done, nothing
\* is stored and the transition is queued behind q.
C22_EpisodeClosing ==
    [][(mode = "ep" /\ epOut'.op = "add" /\ ep.queue[1] # <<>>) =>
          LET q == ep.queue[1]
              d == epOut'.data
              cont == q[Len(q)].s_ = d.s /\ q[Len(q)].vs_ = d.vs
              stored(traj) ==
                  /\ ep'.log = Append(ep.log, traj)
                  /\ ep'.buffer = [ep.buffer EXCEPT ![ep.data_pointer] = traj]
                  /\ ep'.size = Min(ep.size + 1, ep.capacity)
          IN  /\ (cont /\ d.done) =>
                     stored(Append(q, d)) /\ ep'.queue[1] = <<>>
              /\ ~cont => stored(q) /\ ep'.queue[1] = <<d>>
              /\ (cont /\ ~d.done) =>
                     /\ ep'.log = ep.log /\ ep'.buffer = ep.buffer
                     /\ ep'.size = ep.size
                     /\ ep'.queue[1] = Append(q, d)]_vars

\* Both closings have happened: a trajectory of two transitions closed by its
\* terminal one, then one closed by a discontinuity, whose transition is queued.
C22_Witness ==
    /\ mode = "ep"
    /\ epOut.op = "add"
    /\ Len(ep.log) = 2
    /\ Len(ep.log[1]) = 2 /\ ep.log[1][2].done
    /\ \A k \in 1..Len(ep.log[2]) : ~ep.log[2][k].done
    /\ ep.queue[1] = <<epOut.data>>

\* The slots whose priority the step changes.
PER_changed == {slot \in 0..(per.capacity - 1) :
                   Tree_priority(per'.tree, slot) # Tree_priority(per.tree, slot)}

\* sample and get_all change nothing of the store but last_indexs.
PER_sample_frame ==
    perOut'.op \in {"sample", "get_all"} =>
        per' = [per EXCEPT !.last_indexs = per'.last_indexs]

\* The slots the step's call may write: those an add or apex_add of num
\* transitions fills from the cursor on, those a successful update names.
PER_named ==
    IF perOut'.op \in {"add", "apex_add"} THEN PER_written(per, perOut'.num)
    ELSE IF perOut'.op = "update" THEN perOut'.idxs
    ELSE {}

\* C23 as stated: sample and get_all leave every leaf priority, the total,
\* size, beta, min_p and max_p unchanged, and the priority of a slot changes
\* only when an add writes that slot or an update names its index.
C23_OnlyAddAndUpdate ==
    [][mode = "per" => (PER_sample_frame /\ PER_changed \subseteq PER_named)]_vars

\* C23, amended: sample and get_all leave every leaf priority, the total,
\* size, beta, min_p and max_p unchanged, and the priority of a slot changes
\* only when an add writes that slot, an update names its index or reset
\* clears the tree.
C23_PrioritiesChange ==
    [][mode = "per" =>
          /\ PER_sample_frame
          /\ perOut'.op # "reset" => PER_changed \subseteq PER_named]_vars

\* A sample has been taken from a store whose slots hold different
\* priorities, one of them written by an update.
C23_Witness ==
    /\ mode = "per"
    /\ perOut.op = "sample"
    /\ ~perOut.err
    /\ perHist.updates > 0
    /\ \E i, j \in 0..(per.capacity - 1) :
          /\ Tree_priority(per.tree, i) > Tree_priority(per.tree, j)
          /\ Tree_priority(per.tree, j) > 0

\* C24: after reset() and k insertions, 1 <= k <= capacity, the uniform store
\* has size k and get_all and sample return only items inserted after the
\* reset.  (Items are numbered in insertion order; erSince counts the
\* insertions since the last reset.)
C24_ResetForgets ==
    (mode = "er" /\ erSince \in 1..er.capacity) =>
        /\ er.size = erSince
        /\ erOut.op \in {"sample", "get_all"} =>
               \A i \in 1..Len(erOut.data) :
                   erOut.data[i] \in (erIns - erSince + 1)..erIns

\* C25: after add has processed a transition with done set, the agent's
\* queue is empty and the terminal transition has been committed, whatever
\* the queue held before and whether or not the transition continued it.
C25_TerminalNotPending ==
    (mode = "nstep" /\ nsOut.op = "add" /\ nsOut.data.done) =>
        /\ ns.queue[1] = <<>>
        /\ \E k \in 1..Len(nsOut.commits) : nsOut.commits[k].a = nsOut.data.a

\* C26: conservation over an episode.  Fed, from an empty queue, a continuous
\* stream of T >= 2 transitions of which only the last is done, the wrapper
\* has committed exactly T entries, one for each transition and none twice,
\* and the queue is empty.
C26_EpisodeConservation ==
    LET T == Len(nsHist) IN
    (/\ mode = "nstep"
     /\ T >= 2
     /\ Continuous(nsHist, 1, T)
     /\ \A k \in 1..T : nsHist[k].done <=> k = T) =>
        /\ Len(ns.log) = T
        /\ {ns.log[k].a : k \in 1..T} = 1..T
        /\ \A k \in 1..T : /\ ns.log[k].s = nsHist[ns.log[k].a].s
                            /\ ns.log[k].vs = nsHist[ns.log[k].a].vs
        /\ ns.queue[1] = <<>>

C26_Witness ==
    /\ mode = "nstep"
    /\ ns.n = 3
    /\ Len(nsHist) = 5
    /\ Continuous(nsHist, 1, 5)
    /\ \A k \in 1..5 : nsHist[k].done <=> k = 5
    /\ Len(ns.log) = 5
    /\ ns.queue[1] = <<>>

\* C27: every trajectory EpisodeExperienceReplay stored is non-empty, its
\* consecutive transitions are pairwise continuous, and none but its last
\* transition has done set.
C27_StoredTrajectories ==
    mode = "ep" =>
        \A i \in 1..Len(ep.log) :
            LET traj == ep.log[i] IN
            /\ Len(traj) >= 1
            /\ Continuous(traj, 1, Len(traj))
            /\ \A k \in 1..(Len(traj) - 1) : ~traj[k].done

====
